---- MODULE Spec2Model ----
(***************************************************************************)
(* JsonFileDatastore (datastore/src/json_file.rs): a key-value store whose *)
(* whole content lives in one JSON file.  The model has three layers:      *)
(*   - the codec: serde_json's Value tree, its writer and its reader, over *)
(*     files that are sequences of JSON tokens;                            *)
(*   - the query pipeline (naive_apply_query) as operators on sequences of *)
(*     (key, value) pairs;                                                 *)
(*   - the storage engine as a state machine: threads calling put, get,    *)
(*     has, delete, query and flush on one shared instance, its Mutex, the *)
(*     destination file, the temporary file of each flush, drop and        *)
(*     reopen.                                                             *)
(* Three specifications: Spec (the engine), QSpec (the pipeline on drawn    *)
(* mappings and queries) and FairSpec (the engine under fair scheduling).  *)
(* Values are Vec<u8>, the type the repository's tests instantiate T with. *)
(***************************************************************************)
EXTENDS Integers, Sequences, FiniteSets, TLC

\* ------------------------------------------------------------------ bounds

\* Largest byte a thread puts into a value: the values of the engine model are
\* the empty vector and the one-byte vectors over 0..MaxByte.
MaxByte == 0
\* Largest skip, and largest finite limit, of the queries the pipeline model draws.
MaxSkip == 2

\* The largest u8: from_value::<Vec<u8>> rejects any number above it.
U8Max == 255
\* u64::max_value(), the "unbounded" limit of the tests; it stands here as the
\* largest integer TLC computes with, far above every length in the model.
U64Max == 2147483647

\* ------------------------------------------------------------ keys, values

\* Keys are strings, modelled as sequences of one-character strings.
CharCode(c) ==
    CASE c = "1" -> 49 [] c = "2" -> 50 [] c = "3" -> 51 [] c = "4" -> 52
      [] c = "5" -> 53 [] c = "a" -> 97 [] c = "b" -> 98 [] c = "f" -> 102
      [] c = "o" -> 111 [] c = "r" -> 114

KeyCodes(k) == [i \in 1..Len(k) |-> CharCode(k[i])]

\* Ord for Vec<u8> and (through KeyCodes) for String: lexicographic, -1 / 0 / 1.
RECURSIVE CmpSeq(_, _)
CmpSeq(a, b) ==
    IF a = <<>> /\ b = <<>> THEN 0
    ELSE IF a = <<>> THEN -1
    ELSE IF b = <<>> THEN 1
    ELSE IF Head(a) < Head(b) THEN -1
    ELSE IF Head(a) > Head(b) THEN 1
    ELSE CmpSeq(Tail(a), Tail(b))

CmpKey(a, b) == CmpSeq(KeyCodes(a), KeyCodes(b))

\* <T as Default>::default() for Vec<u8>.
DefaultValue == <<>>

\* HashMap<String, T> is a function from a finite set of keys to values.
EmptyMap == [k \in {} |-> <<>>]

MapInsert(m, k, v) == [x \in DOMAIN m \cup {k} |-> IF x = k THEN v ELSE m[x]]

MapRemove(m, k) == [x \in DOMAIN m \ {k} |-> m[x]]

\* ------------------------------------------------------------- JSON values

\* serde_json::Value, every variant with the same record shape.
JNull == [k |-> "null", n |-> 0, s |-> <<>>, a |-> <<>>, o |-> EmptyMap]
JBool(b) == [k |-> "bool", n |-> IF b THEN 1 ELSE 0, s |-> <<>>, a |-> <<>>, o |-> EmptyMap]
JNum(n) == [k |-> "num", n |-> n, s |-> <<>>, a |-> <<>>, o |-> EmptyMap]
JStr(s) == [k |-> "str", n |-> 0, s |-> s, a |-> <<>>, o |-> EmptyMap]
JArr(a) == [k |-> "arr", n |-> 0, s |-> <<>>, a |-> a, o |-> EmptyMap]
JObj(o) == [k |-> "obj", n |-> 0, s |-> <<>>, a |-> <<>>, o |-> o]

\* to_value(v) for v: Vec<u8>: an array of numbers.
ToValue(v) == JArr([i \in 1..Len(v) |-> JNum(v[i])])

\* from_value::<Vec<u8>>(value): Ok only for an array of numbers in 0..255.
FromValueOk(j) ==
    /\ j.k = "arr"
    /\ \A i \in 1..Len(j.a) : j.a[i].k = "num" /\ j.a[i].n \in 0..U8Max

FromValue(j) == [i \in 1..Len(j.a) |-> j.a[i].n]

\* ------------------------------------------------------------- JSON tokens

\* A file is a sequence of tokens; every token has the same record shape.
Tok(t) == [t |-> t, n |-> 0, s |-> <<>>]
NumTok(n) == [t |-> "num", n |-> n, s |-> <<>>]
StrTok(s) == [t |-> "str", n |-> 0, s |-> s]

\* The keys of a serde_json Map (a BTreeMap) in iteration order: ascending.
RECURSIVE SortedKeys(_)
SortedKeys(S) ==
    IF S = {} THEN <<>>
    ELSE LET m == CHOOSE x \in S : \A y \in S : CmpKey(x, y) <= 0
         IN <<m>> \o SortedKeys(S \ {m})

\* to_writer(value): the compact serialization of a Value.
RECURSIVE WriteValue(_)
RECURSIVE WriteElems(_, _)
RECURSIVE WriteMembers(_, _)
WriteValue(j) ==
    CASE j.k = "null" -> <<Tok("null")>>
      [] j.k = "bool" -> <<Tok(IF j.n = 1 THEN "true" ELSE "false")>>
      [] j.k = "num" -> <<NumTok(j.n)>>
      [] j.k = "str" -> <<StrTok(j.s)>>
      [] j.k = "arr" -> <<Tok("[")>> \o WriteElems(j.a, 1) \o <<Tok("]")>>
      [] j.k = "obj" ->
            <<Tok("{")>> \o WriteMembers(j.o, SortedKeys(DOMAIN j.o)) \o <<Tok("}")>>

WriteElems(a, i) ==
    IF i > Len(a) THEN <<>>
    ELSE (IF i > 1 THEN <<Tok(",")>> ELSE <<>>) \o WriteValue(a[i]) \o WriteElems(a, i + 1)

WriteMembers(o, ks) ==
    IF ks = <<>> THEN <<>>
    ELSE <<StrTok(Head(ks)), Tok(":")>> \o WriteValue(o[Head(ks)])
         \o (IF Len(ks) > 1 THEN <<Tok(",")>> ELSE <<>>)
         \o WriteMembers(o, Tail(ks))

\* from_reader::<_, Value>: the recursive-descent reader.  A result is
\* [ok, v, rest]: whether a value was read, the value, the tokens after it.
ParseFail == [ok |-> FALSE, v |-> JNull, rest |-> <<>>]
ParseOk(v, rest) == [ok |-> TRUE, v |-> v, rest |-> rest]

RECURSIVE ParseValue(_)
RECURSIVE ParseElems(_, _)
RECURSIVE ParseMembers(_, _)
ParseValue(toks) ==
    IF toks = <<>> THEN ParseFail
    ELSE LET h == Head(toks)
             r == Tail(toks)
         IN CASE h.t = "null" -> ParseOk(JNull, r)
              [] h.t = "true" -> ParseOk(JBool(TRUE), r)
              [] h.t = "false" -> ParseOk(JBool(FALSE), r)
              [] h.t = "num" -> ParseOk(JNum(h.n), r)
              [] h.t = "str" -> ParseOk(JStr(h.s), r)
              [] h.t = "[" ->
                    IF r # <<>> /\ Head(r).t = "]" THEN ParseOk(JArr(<<>>), Tail(r))
                    ELSE ParseElems(r, <<>>)
              [] h.t = "{" ->
                    IF r # <<>> /\ Head(r).t = "}" THEN ParseOk(JObj(EmptyMap), Tail(r))
                    ELSE ParseMembers(r, EmptyMap)
              [] OTHER -> ParseFail

\* After "[" or ",": one element, then "," and more, or "]".
ParseElems(toks, acc) ==
    LET e == ParseValue(toks)
    IN IF ~e.ok \/ e.rest = <<>> THEN ParseFail
       ELSE IF Head(e.rest).t = "," THEN ParseElems(Tail(e.rest), Append(acc, e.v))
       ELSE IF Head(e.rest).t = "]" THEN ParseOk(JArr(Append(acc, e.v)), Tail(e.rest))
       ELSE ParseFail

\* After "{" or ",": "key" ":" value, then "," and more, or "}".  A repeated
\* key overwrites (Map::insert).
ParseMembers(toks, acc) ==
    IF Len(toks) < 2 \/ toks[1].t # "str" \/ toks[2].t # ":" THEN ParseFail
    ELSE LET e == ParseValue(Tail(Tail(toks)))
         IN IF ~e.ok \/ e.rest = <<>> THEN ParseFail
            ELSE IF Head(e.rest).t = ","
                 THEN ParseMembers(Tail(e.rest), MapInsert(acc, toks[1].s, e.v))
            ELSE IF Head(e.rest).t = "}"
                 THEN ParseOk(JObj(MapInsert(acc, toks[1].s, e.v)), Tail(e.rest))
            ELSE ParseFail

\* Whitespace between tokens is skipped by the reader.
NotSpace(tok) == tok.t # "ws"

\* from_reader: one value, then nothing but whitespace up to the end of input.
FromReader(bytes) ==
    LET p == ParseValue(SelectSeq(bytes, NotSpace))
    IN IF p.ok /\ p.rest = <<>> THEN p ELSE ParseFail

\* ---------------------------------------------------------- query pipeline

\* A Query is [prefix, filters, orders, skip, limit, keys_only].  A Filter is
\* [ty, klit, vlit, op]: ty "key" compares the key with klit, ty "value" the
\* value with vlit.  An Order is one of the four names below.  A stream is a
\* sequence of entries [key, value].
FilterOps == {"Equal", "NotEqual", "Less", "LessOrEqual", "Greater", "GreaterOrEqual"}
Orders == {"ByValueAsc", "ByValueDesc", "ByKeyAsc", "ByKeyDesc"}

Entry(k, v) == [key |-> k, value |-> v]

StartsWith(k, prefix) ==
    Len(prefix) <= Len(k) /\ SubSeq(k, 1, Len(prefix)) = prefix

\* Stage 1: keep the entries whose key starts with the prefix.
NaiveApplyPrefix(stream, prefix) ==
    LET Keep(e) == StartsWith(e.key, prefix)
    IN SelectSeq(stream, Keep)

OpHolds(op, c) ==
    CASE op = "Equal" -> c = 0
      [] op = "NotEqual" -> c # 0
      [] op = "Less" -> c < 0
      [] op = "LessOrEqual" -> c <= 0
      [] op = "Greater" -> c > 0
      [] op = "GreaterOrEqual" -> c >= 0

FilterPasses(e, f) ==
    OpHolds(f.op, IF f.ty = "key" THEN CmpKey(e.key, f.klit) ELSE CmpSeq(e.value, f.vlit))

\* Stage 2: keep the entries that pass every filter.
NaiveApplyFilters(stream, filters) ==
    LET Keep(e) == \A i \in 1..Len(filters) : FilterPasses(e, filters[i])
    IN SelectSeq(stream, Keep)

CmpOrder(a, b, order) ==
    CASE order = "ByValueAsc" -> CmpSeq(a.value, b.value)
      [] order = "ByValueDesc" -> CmpSeq(b.value, a.value)
      [] order = "ByKeyAsc" -> CmpKey(a.key, b.key)
      [] order = "ByKeyDesc" -> CmpKey(b.key, a.key)

\* The criteria as a tie-break chain: the first that tells a from b decides.
RECURSIVE CmpOrders(_, _, _)
CmpOrders(a, b, orders) ==
    IF orders = <<>> THEN 0
    ELSE LET c == CmpOrder(a, b, Head(orders))
         IN IF c # 0 THEN c ELSE CmpOrders(a, b, Tail(orders))

\* e placed after every element of the sorted sequence that is not greater.
RECURSIVE InsertOrdered(_, _, _)
InsertOrdered(sorted, e, orders) ==
    IF sorted = <<>> THEN <<e>>
    ELSE IF CmpOrders(Head(sorted), e, orders) <= 0
         THEN <<Head(sorted)>> \o InsertOrdered(Tail(sorted), e, orders)
    ELSE <<e>> \o sorted

\* Stage 3: a stable sort by the chain of criteria.
RECURSIVE NaiveApplyOrdered(_, _)
NaiveApplyOrdered(stream, orders) ==
    IF stream = <<>> THEN <<>>
    ELSE InsertOrdered(NaiveApplyOrdered(SubSeq(stream, 1, Len(stream) - 1), orders),
                       stream[Len(stream)], orders)

\* Stage 4: stream.skip(skip).take(limit).
NaiveApplySkipLimit(stream, skip, limit) ==
    LET rest == IF skip >= Len(stream) THEN <<>> ELSE SubSeq(stream, skip + 1, Len(stream))
    IN IF limit >= Len(rest) THEN rest ELSE SubSeq(rest, 1, limit)

\* Stage 5: under keys_only every value becomes the default value.
NaiveApplyKeysOnly(stream, keys_only) ==
    [i \in 1..Len(stream) |->
        Entry(stream[i].key, IF keys_only THEN DefaultValue ELSE stream[i].value)]

NaiveApplyQuery(stream, q) ==
    NaiveApplyKeysOnly(
        NaiveApplySkipLimit(
            NaiveApplyOrdered(
                NaiveApplyFilters(NaiveApplyPrefix(stream, q.prefix), q.filters),
                q.orders),
            q.skip, q.limit),
        q.keys_only)

\* The orders a HashMap of these keys may iterate in: every arrangement.
IterOrders(S) ==
    {p \in [1..Cardinality(S) -> S] : \A i, j \in 1..Cardinality(S) : p[i] = p[j] => i = j}

\* A content stream with the two branches of the keys_only test exchanged.
ContentStreamSwapped(m, keys_only, iter) ==
    [i \in 1..Len(iter) |->
        Entry(iter[i], IF keys_only THEN m[iter[i]] ELSE DefaultValue)]

\* content.iter().filter_map(..): the entries in iteration order `iter`, each
\* value cloned, or replaced by the default value when keys_only is set.
ContentStream(m, keys_only, iter) ==
    [i \in 1..Len(iter) |->
        Entry(iter[i], IF keys_only THEN DefaultValue ELSE m[iter[i]])]

\* A query that never looks at keys_only.
QueryAllValues(m, q, iter) ==
    NaiveApplyQuery([i \in 1..Len(iter) |-> Entry(iter[i], m[iter[i]])],
                    [q EXCEPT !.keys_only = FALSE])

\* Datastore::query: the pipeline over the content stream, collected.
Query(m, q, iter) == NaiveApplyQuery(ContentStream(m, q.keys_only, iter), q)

\* ------------------------------------------------------------------ engine

Threads == {"t1", "t2"}
Keys == {<<"a">>, <<"b">>}
Values == {<<>>} \cup {<<b>> : b \in 0..MaxByte}

\* The paths an instance is created with: a file in a directory, and the
\* empty path, which has no parent directory and never exists.
PathStore == "dir/store.json"
PathBare == ""
Paths == {PathStore, PathBare}

\* self.path.parent(): None for the empty path.
HasParent(p) == p # PathBare

\* The directory self.path.parent() names when there is one.
Parent(p) == IF p = PathStore THEN "dir" ELSE ""

\* A file of the filesystem: absent, or present with its bytes (tokens).
NoFile == [exists |-> FALSE, bytes |-> <<>>]
File(bytes) == [exists |-> TRUE, bytes |-> bytes]

\* A NamedTempFile: none, or a file with a fresh name in directory dir.
NoTemp == [exists |-> FALSE, bytes |-> <<>>, dir |-> ""]
TempFile(dir, bytes) == [exists |-> TRUE, bytes |-> bytes, dir |-> dir]

\* What flush writes: the mapping as a Map<String, Value>, serialized.
Encode(m) == WriteValue(JObj([k \in DOMAIN m |-> ToValue(m[k])]))

\* The body of JsonFileDatastore::new for a path that exists and can be read:
\* [ok, map, err].
LoadOk(m) == [ok |-> TRUE, map |-> m, err |-> ""]
LoadErr(e) == [ok |-> FALSE, map |-> EmptyMap, err |-> e]

\* A load that forgets to chain the byte it read for the end-of-file test back
\* in front of the rest of the file.
LoadWithoutFirstByte(bytes) ==
    IF Len(bytes) = 0 THEN LoadOk(EmptyMap)
    ELSE LET p == FromReader(Tail(bytes))
         IN IF ~p.ok THEN LoadErr("InvalidData")
            ELSE IF p.v.k = "null" THEN LoadOk(EmptyMap)
            ELSE IF p.v.k = "obj"
                 THEN IF \A k \in DOMAIN p.v.o : FromValueOk(p.v.o[k])
                      THEN LoadOk([k \in DOMAIN p.v.o |-> FromValue(p.v.o[k])])
                      ELSE LoadErr("InvalidData")
            ELSE LoadErr("InvalidData")

\* A load that skips the entries whose value does not decode, and takes any
\* other top-level value for an empty store.
LoadSkippingMalformed(bytes) ==
    IF Len(bytes) = 0 THEN LoadOk(EmptyMap)
    ELSE LET p == FromReader(bytes)
         IN IF ~p.ok THEN LoadErr("InvalidData")
            ELSE IF p.v.k = "obj"
                 THEN LoadOk([k \in {x \in DOMAIN p.v.o : FromValueOk(p.v.o[x])} |->
                                 FromValue(p.v.o[k])])
            ELSE LoadOk(EmptyMap)

\* A load without the end-of-file test: the reader sees the empty input.
LoadWithoutEofTest(bytes) ==
    LET p == FromReader(bytes)
    IN IF ~p.ok THEN LoadErr("InvalidData")
       ELSE IF p.v.k = "null" THEN LoadOk(EmptyMap)
       ELSE IF p.v.k = "obj"
            THEN IF \A k \in DOMAIN p.v.o : FromValueOk(p.v.o[k])
                 THEN LoadOk([k \in DOMAIN p.v.o |-> FromValue(p.v.o[k])])
                 ELSE LoadErr("InvalidData")
       ELSE LoadErr("InvalidData")

Load(bytes) ==
    IF Len(bytes) = 0 THEN LoadOk(EmptyMap)
    ELSE LET p == FromReader(bytes)
         IN IF ~p.ok THEN LoadErr("InvalidData")
            ELSE IF p.v.k = "null" THEN LoadOk(EmptyMap)
            ELSE IF p.v.k = "obj"
                 THEN IF \A k \in DOMAIN p.v.o : FromValueOk(p.v.o[k])
                      THEN LoadOk([k \in DOMAIN p.v.o |-> FromValue(p.v.o[k])])
                      ELSE LoadErr("InvalidData")
            ELSE LoadErr("InvalidData")

\* JsonFileDatastore::new(path), the file at the path being f.
New(f) == IF ~f.exists THEN LoadOk(EmptyMap) ELSE Load(f.bytes)

\* Files that open as an empty datastore.
BlankFiles ==
    { NoFile,
      File(<<>>),
      File(<<Tok("null")>>),
      File(<<Tok("ws"), Tok("null"), Tok("ws")>>) }

\* Files that hold a well-formed store.
StoreFiles ==
    { File(<<Tok("{"), Tok("}")>>),
      File(<<Tok("{"), StrTok(<<"b">>), Tok(":"), Tok("["), NumTok(0), Tok("]"), Tok("}")>>) }

\* Files that are not valid JSON.
MalformedFiles ==
    { File(<<Tok("ws")>>),
      File(<<Tok("}")>>),
      File(<<Tok("{"), StrTok(<<"a">>), Tok(":"), Tok("[")>>),
      File(<<Tok("{"), StrTok(<<"a">>), Tok(":"), Tok("["), Tok("]"), Tok(","), Tok("}")>>),
      File(<<Tok("null"), Tok("null")>>) }

\* Files that are valid JSON of another top-level shape.
WrongShapeFiles ==
    { File(<<Tok("["), Tok("]")>>),
      File(<<Tok("["), NumTok(0), Tok(","), NumTok(1), Tok("]")>>),
      File(<<StrTok(<<"a">>)>>),
      File(<<NumTok(0)>>),
      File(<<Tok("true")>>) }

\* Objects in which one value does not decode as Vec<u8>.
BadEntryFiles ==
    { File(<<Tok("{"), StrTok(<<"a">>), Tok(":"), StrTok(<<"b">>), Tok("}")>>),
      File(<<Tok("{"), StrTok(<<"a">>), Tok(":"), Tok("["), NumTok(0), Tok("]"), Tok(","),
             StrTok(<<"b">>), Tok(":"), Tok("["), NumTok(U8Max + 1), Tok("]"), Tok("}")>>),
      File(<<Tok("{"), StrTok(<<"a">>), Tok(":"), Tok("["), NumTok(0), Tok("]"), Tok(","),
             StrTok(<<"b">>), Tok(":"), Tok("null"), Tok("}")>>) }

CorruptFiles == MalformedFiles \cup WrongShapeFiles \cup BadEntryFiles

\* What may be at the path before the program first opens it.
InitFiles(p) ==
    IF p = PathBare THEN {NoFile} ELSE BlankFiles \cup StoreFiles \cup CorruptFiles

\* The query without criteria, and the query the threads of the engine model
\* ask: every entry with its value, by descending key (the pipeline model
\* draws the other queries).
NoQuery ==
    [prefix |-> <<>>, filters |-> <<>>, orders |-> <<>>, skip |-> 0, limit |-> 0,
     keys_only |-> FALSE]

EngineQueries ==
    { [NoQuery EXCEPT !.orders = <<"ByKeyDesc">>, !.limit = U64Max] }

\* The result an operation handed to its caller.
RetNone ==
    [op |-> "none", kind |-> "none", b |-> FALSE, v |-> <<>>, rows |-> <<>>,
     err |-> "", q |-> NoQuery]

VARIABLES
    path,       \* self.path
    file,       \* the file at self.path
    temp,       \* temp[t]: the NamedTempFile of thread t's flush
    inst,       \* "open" while an instance exists, else "none"
    content,    \* self.content: the mapping
    lock,       \* the Mutex: "free", or the thread holding it
    pc,         \* pc[t]: where thread t is in its operation
    ret,        \* ret[t]: the result of thread t's operation
    dropping,   \* the instance is in Drop::drop
    openRes,    \* what the last call of new returned: "none", "Ok", "InvalidData"
    clean,      \* history: a flush succeeded and no put or delete ran since
    prev,       \* history: the mapping of the instance that was destroyed last
    qm, qq, qres, qdone   \* the pipeline model: mapping, query, result, evaluated

evars == <<path, file, temp, inst, content, lock, pc, ret, dropping, openRes, clean, prev>>
qvars == <<qm, qq, qres, qdone>>
vars == <<evars, qvars>>

\* A mutex that excludes nobody.
CanLockAlways(t) == TRUE

\* Mutex::lock returns once no thread holds the mutex.
CanLock(t) == lock = "free"

Idle == [t \in Threads |-> "idle"]
NoRets == [t \in Threads |-> RetNone]
NoTemps == [t \in Threads |-> NoTemp]

QIdle == qm = EmptyMap /\ qq = NoQuery /\ qres = <<>> /\ qdone = FALSE

Init ==
    /\ path \in Paths
    /\ file \in InitFiles(path)
    /\ temp = NoTemps
    /\ inst = "none"
    /\ content = EmptyMap
    /\ lock = "free"
    /\ pc = Idle
    /\ ret = NoRets
    /\ dropping = FALSE
    /\ openRes = "none"
    /\ clean = FALSE
    /\ prev = EmptyMap
    /\ QIdle

\* A new that creates the file when the path does not exist.
OpenCreating ==
    /\ inst = "none"
    /\ LET r == New(file)
       IN /\ openRes' = IF r.ok THEN "Ok" ELSE r.err
          /\ inst' = IF r.ok THEN "open" ELSE "none"
          /\ content' = r.map
          /\ prev' = IF r.ok THEN EmptyMap ELSE prev
    /\ file' = IF file.exists THEN file ELSE File(<<>>)
    /\ ret' = NoRets
    /\ UNCHANGED <<path, temp, lock, pc, dropping, clean, qvars>>

\* JsonFileDatastore::new(path).  An error produces no instance.
Open ==
    /\ inst = "none"
    /\ LET r == New(file)
       IN /\ openRes' = IF r.ok THEN "Ok" ELSE r.err
          /\ inst' = IF r.ok THEN "open" ELSE "none"
          /\ content' = r.map
          /\ prev' = IF r.ok THEN EmptyMap ELSE prev
    /\ ret' = NoRets
    /\ UNCHANGED <<path, file, temp, lock, pc, dropping, clean, qvars>>

\* A thread calls put, get, has, delete or query; it then waits for the lock.
Call(t, o) ==
    /\ inst = "open" /\ ~dropping
    /\ pc[t] = "idle"
    /\ pc' = [pc EXCEPT ![t] = o]
    /\ ret' = [ret EXCEPT ![t] = RetNone]
    /\ UNCHANGED <<path, file, temp, inst, content, lock, dropping, openRes, clean, prev, qvars>>

\* A put that does not take the lock.
PutUnlocked(t) ==
    /\ pc[t] = "put"
    /\ \E k \in Keys, v \in Values :
          /\ content' = MapInsert(content, k, v)
          /\ ret' = [ret EXCEPT ![t] = [RetNone EXCEPT !.op = "put", !.kind = "unit"]]
    /\ pc' = [pc EXCEPT ![t] = "idle"]
    /\ clean' = FALSE
    /\ UNCHANGED <<path, file, temp, inst, lock, dropping, openRes, prev, qvars>>

\* A put that also writes the mapping through to the file.
PutWritingThrough(t) ==
    /\ pc[t] = "put" /\ CanLock(t)
    /\ \E k \in Keys, v \in Values :
          /\ content' = MapInsert(content, k, v)
          /\ file' = File(Encode(MapInsert(content, k, v)))
          /\ ret' = [ret EXCEPT ![t] = [RetNone EXCEPT !.op = "put", !.kind = "unit"]]
    /\ pc' = [pc EXCEPT ![t] = "idle"]
    /\ clean' = FALSE
    /\ UNCHANGED <<path, temp, inst, lock, dropping, openRes, prev, qvars>>

\* put(key, value): lock, insert, unlock.
Put(t) ==
    /\ pc[t] = "put" /\ CanLock(t)
    /\ \E k \in Keys, v \in Values :
          /\ content' = MapInsert(content, k, v)
          /\ ret' = [ret EXCEPT ![t] = [RetNone EXCEPT !.op = "put", !.kind = "unit"]]
    /\ pc' = [pc EXCEPT ![t] = "idle"]
    /\ clean' = FALSE
    /\ UNCHANGED <<path, file, temp, inst, lock, dropping, openRes, prev, qvars>>

\* get(key): lock, clone the value if any, unlock.
Get(t) ==
    /\ pc[t] = "get" /\ CanLock(t)
    /\ \E k \in Keys :
          ret' = [ret EXCEPT ![t] =
                    IF k \in DOMAIN content
                    THEN [RetNone EXCEPT !.op = "get", !.kind = "some", !.v = content[k]]
                    ELSE [RetNone EXCEPT !.op = "get", !.kind = "nothing"]]
    /\ pc' = [pc EXCEPT ![t] = "idle"]
    /\ UNCHANGED <<path, file, temp, inst, content, lock, dropping, openRes, clean, prev, qvars>>

\* has(key): lock, contains_key, unlock.
Has(t) ==
    /\ pc[t] = "has" /\ CanLock(t)
    /\ \E k \in Keys :
          ret' = [ret EXCEPT ![t] =
                    [RetNone EXCEPT !.op = "has", !.kind = "bool", !.b = (k \in DOMAIN content)]]
    /\ pc' = [pc EXCEPT ![t] = "idle"]
    /\ UNCHANGED <<path, file, temp, inst, content, lock, dropping, openRes, clean, prev, qvars>>

\* A delete that tests is_none() where the code tests is_some().
DeleteInverted(t) ==
    /\ pc[t] = "delete" /\ CanLock(t)
    /\ \E k \in Keys :
          /\ content' = MapRemove(content, k)
          /\ ret' = [ret EXCEPT ![t] =
                       [RetNone EXCEPT !.op = "delete", !.kind = "bool",
                                       !.b = (k \notin DOMAIN content)]]
    /\ pc' = [pc EXCEPT ![t] = "idle"]
    /\ clean' = FALSE
    /\ UNCHANGED <<path, file, temp, inst, lock, dropping, openRes, prev, qvars>>

\* delete(key): lock, remove, unlock; true when something was removed.
Delete(t) ==
    /\ pc[t] = "delete" /\ CanLock(t)
    /\ \E k \in Keys :
          /\ content' = MapRemove(content, k)
          /\ ret' = [ret EXCEPT ![t] =
                       [RetNone EXCEPT !.op = "delete", !.kind = "bool",
                                       !.b = (k \in DOMAIN content)]]
    /\ pc' = [pc EXCEPT ![t] = "idle"]
    /\ clean' = FALSE
    /\ UNCHANGED <<path, file, temp, inst, lock, dropping, openRes, prev, qvars>>

\* query(q) up to `collected`: lock, run the pipeline over the mapping.
QueryCollect(t) ==
    /\ pc[t] = "query" /\ CanLock(t)
    /\ lock' = t
    /\ \E q \in EngineQueries, iter \in IterOrders(DOMAIN content) :
          ret' = [ret EXCEPT ![t] =
                    [RetNone EXCEPT !.op = "query", !.kind = "collected", !.q = q,
                                    !.rows = Query(content, q, iter)]]
    /\ pc' = [pc EXCEPT ![t] = "query_ret"]
    /\ UNCHANGED <<path, file, temp, inst, content, dropping, openRes, clean, prev, qvars>>

\* query returns the collected rows; the guard goes out of scope.
QueryReturn(t) ==
    /\ pc[t] = "query_ret"
    /\ lock' = IF lock = t THEN "free" ELSE lock
    /\ ret' = [ret EXCEPT ![t].kind = "rows"]
    /\ pc' = [pc EXCEPT ![t] = "idle"]
    /\ UNCHANGED <<path, file, temp, inst, content, dropping, openRes, clean, prev, qvars>>

\* ------------------------------------------------------------------- flush

\* A flush that goes on without a parent directory.
BeginWithoutParentCheck(t) ==
    /\ pc' = [pc EXCEPT ![t] = "flush_tmp"]
    /\ ret' = [ret EXCEPT ![t] = [RetNone EXCEPT !.op = "flush"]]

\* flush starts: the parent directory of self.path, or the error.
Begin(t) ==
    /\ pc' = [pc EXCEPT ![t] = IF HasParent(path) THEN "flush_tmp" ELSE "flush_err"]
    /\ ret' = [ret EXCEPT ![t] =
                 [RetNone EXCEPT !.op = "flush",
                                 !.err = IF HasParent(path) THEN "" ELSE "NoParent"]]

\* A step of flush fails: `?` leaves the function with the error.
Fail(t, e) ==
    /\ pc' = [pc EXCEPT ![t] = "flush_err"]
    /\ ret' = [ret EXCEPT ![t].err = e]

\* A drop that unwraps the result of its flush: the error reaches the caller.
FinishUnwrapping(t, r) ==
    /\ pc' = [pc EXCEPT ![t] = "idle"]
    /\ IF dropping
       THEN /\ inst' = "none"
            /\ prev' = content
            /\ content' = EmptyMap
            /\ dropping' = FALSE
            /\ openRes' = "none"
            /\ ret' = [NoRets EXCEPT ![t] =
                         IF r.kind = "err" THEN r
                         ELSE [RetNone EXCEPT !.op = "drop", !.kind = "unit"]]
       ELSE /\ ret' = [ret EXCEPT ![t] = r]
            /\ UNCHANGED <<inst, prev, content, dropping, openRes>>

\* flush (or the flush of drop) is over with result r.  In drop the result is
\* discarded and the instance is gone.
Finish(t, r) ==
    /\ pc' = [pc EXCEPT ![t] = "idle"]
    /\ IF dropping
       THEN /\ inst' = "none"
            /\ prev' = content
            /\ content' = EmptyMap
            /\ dropping' = FALSE
            /\ openRes' = "none"
            /\ ret' = [NoRets EXCEPT ![t] = [RetNone EXCEPT !.op = "drop", !.kind = "unit"]]
       ELSE /\ ret' = [ret EXCEPT ![t] = r]
            /\ UNCHANGED <<inst, prev, content, dropping, openRes>>

\* A thread calls flush.
FlushCall(t) ==
    /\ inst = "open" /\ ~dropping
    /\ pc[t] = "idle"
    /\ Begin(t)
    /\ UNCHANGED <<path, file, temp, inst, content, lock, dropping, openRes, clean, prev, qvars>>

\* The last owner lets go of the instance: Drop::drop calls flush.
DropCall(t) ==
    /\ inst = "open" /\ ~dropping
    /\ pc = Idle
    /\ dropping' = TRUE
    /\ Begin(t)
    /\ UNCHANGED <<path, file, temp, inst, content, lock, openRes, clean, prev, qvars>>

\* A flush that takes its temporary file from the system's temporary directory
\* (NamedTempFile::new()).
CreateTempInSystemDir(t) ==
    /\ pc[t] = "flush_tmp"
    /\ temp' = [temp EXCEPT ![t] = TempFile("/tmp", <<>>)]
    /\ pc' = [pc EXCEPT ![t] = "flush_lock"]
    /\ UNCHANGED <<path, file, inst, content, lock, ret, dropping, openRes, clean, prev, qvars>>

\* NamedTempFile::new_in(parent): an empty temporary file in the directory of
\* the destination.
CreateTemp(t) ==
    /\ pc[t] = "flush_tmp"
    /\ temp' = [temp EXCEPT ![t] = TempFile(Parent(path), <<>>)]
    /\ pc' = [pc EXCEPT ![t] = "flush_lock"]
    /\ UNCHANGED <<path, file, inst, content, lock, ret, dropping, openRes, clean, prev, qvars>>

CreateTempFail(t) ==
    /\ pc[t] = "flush_tmp"
    /\ Fail(t, "CreateTemp")
    /\ UNCHANGED <<path, file, temp, inst, content, lock, dropping, openRes, clean, prev, qvars>>

\* A flush that goes on to serialize the mapping without taking the lock.
FlushLockSkipped(t) ==
    /\ pc[t] = "flush_lock"
    /\ pc' = [pc EXCEPT ![t] = "flush_write"]
    /\ UNCHANGED <<path, file, temp, inst, content, lock, ret, dropping, openRes, clean, prev, qvars>>

\* self.content.lock(): held until flush returns.
FlushLock(t) ==
    /\ pc[t] = "flush_lock" /\ CanLock(t)
    /\ lock' = t
    /\ pc' = [pc EXCEPT ![t] = "flush_write"]
    /\ UNCHANGED <<path, file, temp, inst, content, ret, dropping, openRes, clean, prev, qvars>>

\* A flush that drops the guard as soon as the mapping is serialized.
WriteTempReleasing(t) ==
    /\ pc[t] = "flush_write"
    /\ temp' = [temp EXCEPT ![t] = TempFile(temp[t].dir, Encode(content))]
    /\ lock' = IF lock = t THEN "free" ELSE lock
    /\ pc' = [pc EXCEPT ![t] = "flush_sync"]
    /\ UNCHANGED <<path, file, inst, content, ret, dropping, openRes, clean, prev, qvars>>

\* to_writer(&mut temporary_file, ..): the whole mapping goes to the temporary file.
WriteTemp(t) ==
    /\ pc[t] = "flush_write"
    /\ temp' = [temp EXCEPT ![t] = TempFile(temp[t].dir, Encode(content))]
    /\ pc' = [pc EXCEPT ![t] = "flush_sync"]
    /\ UNCHANGED <<path, file, inst, content, lock, ret, dropping, openRes, clean, prev, qvars>>

\* What a write that fails may leave of the bytes it was given: nothing, the
\* first half, or all but the end.
PartialWrites(bytes) ==
    {SubSeq(bytes, 1, n) : n \in {0, Len(bytes) \div 2, Len(bytes) - 1}}

\* A flush that writes to the destination itself instead of a temporary file.
WriteInPlaceFail(t) ==
    /\ pc[t] = "flush_write"
    /\ \E part \in PartialWrites(Encode(content)) : file' = File(part)
    /\ Fail(t, "Write")
    /\ UNCHANGED <<path, temp, inst, content, lock, dropping, openRes, clean, prev, qvars>>

\* to_writer fails after some of the bytes were written.
WriteTempFail(t) ==
    /\ pc[t] = "flush_write"
    /\ \E part \in PartialWrites(Encode(content)) : temp' = [temp EXCEPT ![t] = TempFile(temp[t].dir, part)]
    /\ Fail(t, "Write")
    /\ UNCHANGED <<path, file, inst, content, lock, dropping, openRes, clean, prev, qvars>>

\* temporary_file.sync_data().
SyncTemp(t) ==
    /\ pc[t] = "flush_sync"
    /\ pc' = [pc EXCEPT ![t] = "flush_persist"]
    /\ UNCHANGED <<path, file, temp, inst, content, lock, ret, dropping, openRes, clean, prev, qvars>>

SyncTempFail(t) ==
    /\ pc[t] = "flush_sync"
    /\ Fail(t, "Sync")
    /\ UNCHANGED <<path, file, temp, inst, content, lock, dropping, openRes, clean, prev, qvars>>

\* temporary_file.persist(&self.path) renames the temporary file over the
\* destination; flush returns Ok(()) and the guard goes out of scope.
Persist(t) ==
    /\ pc[t] = "flush_persist"
    /\ file' = File(temp[t].bytes)
    /\ temp' = [temp EXCEPT ![t] = NoTemp]
    /\ lock' = IF lock = t THEN "free" ELSE lock
    /\ clean' = TRUE
    /\ Finish(t, [RetNone EXCEPT !.op = "flush", !.kind = "ok"])
    /\ UNCHANGED <<path, qvars>>

PersistFail(t) ==
    /\ pc[t] = "flush_persist"
    /\ Fail(t, "Persist")
    /\ UNCHANGED <<path, file, temp, inst, content, lock, dropping, openRes, clean, prev, qvars>>

\* A failed flush that throws the mapping away.
FlushFailLosingChanges(t) ==
    /\ pc[t] = "flush_err"
    /\ temp' = [temp EXCEPT ![t] = NoTemp]
    /\ lock' = IF lock = t THEN "free" ELSE lock
    /\ pc' = [pc EXCEPT ![t] = "idle"]
    /\ content' = EmptyMap
    /\ IF dropping
       THEN /\ inst' = "none"
            /\ prev' = content
            /\ dropping' = FALSE
            /\ openRes' = "none"
            /\ ret' = [NoRets EXCEPT ![t] = [RetNone EXCEPT !.op = "drop", !.kind = "unit"]]
       ELSE /\ ret' = [ret EXCEPT ![t] = [ret[t] EXCEPT !.kind = "err"]]
            /\ UNCHANGED <<inst, prev, dropping, openRes>>
    /\ UNCHANGED <<path, file, clean, qvars>>

\* A flush whose error return leaves the mutex locked.
FlushFailKeepingLock(t) ==
    /\ pc[t] = "flush_err"
    /\ temp' = [temp EXCEPT ![t] = NoTemp]
    /\ lock' = lock
    /\ Finish(t, [ret[t] EXCEPT !.kind = "err"])
    /\ UNCHANGED <<path, file, clean, qvars>>

\* flush returns the error: the temporary file, if created, is removed as it
\* goes out of scope, and so is the guard, if taken.
FlushFail(t) ==
    /\ pc[t] = "flush_err"
    /\ temp' = [temp EXCEPT ![t] = NoTemp]
    /\ lock' = IF lock = t THEN "free" ELSE lock
    /\ Finish(t, [ret[t] EXCEPT !.kind = "err"])
    /\ UNCHANGED <<path, file, clean, qvars>>

\* The process is killed: the instance is gone without drop.  Temporary files
\* it leaves behind have fresh random names and are never read again, so the
\* model does not keep them.
Crash ==
    /\ inst = "open"
    /\ inst' = "none"
    /\ prev' = content
    /\ content' = EmptyMap
    /\ pc' = Idle
    /\ ret' = NoRets
    /\ temp' = NoTemps
    /\ lock' = "free"
    /\ dropping' = FALSE
    /\ openRes' = "none"
    /\ UNCHANGED <<path, file, clean, qvars>>

Next ==
    \/ Open
    \/ \E t \in Threads : \E o \in {"put", "get", "has", "delete", "query"} : Call(t, o)
    \/ \E t \in Threads : Put(t)
    \/ \E t \in Threads : Get(t)
    \/ \E t \in Threads : Has(t)
    \/ \E t \in Threads : Delete(t)
    \/ \E t \in Threads : QueryCollect(t)
    \/ \E t \in Threads : QueryReturn(t)
    \/ \E t \in Threads : FlushCall(t)
    \/ \E t \in Threads : DropCall(t)
    \/ \E t \in Threads : CreateTemp(t)
    \/ \E t \in Threads : CreateTempFail(t)
    \/ \E t \in Threads : FlushLock(t)
    \/ \E t \in Threads : WriteTemp(t)
    \/ \E t \in Threads : WriteTempFail(t)
    \/ \E t \in Threads : SyncTemp(t)
    \/ \E t \in Threads : SyncTempFail(t)
    \/ \E t \in Threads : Persist(t)
    \/ \E t \in Threads : PersistFail(t)
    \/ \E t \in Threads : FlushFail(t)
    \/ Crash

Spec == Init /\ [][Next]_vars

\* ---------------------------------------------------------- pipeline model

\* The pipeline model evaluates one query on one mapping: its initial states
\* draw the mapping and the query, its one action is Datastore::query.
Key4(a, b, c, d) == <<a, b, c, d>>

\* The entries and the query of tests::query_basic.
ScenarioMap ==
    [k \in { Key4("f", "o", "o", "1"), Key4("f", "o", "o", "2"), Key4("f", "o", "o", "3"),
             Key4("f", "o", "o", "4"), Key4("f", "o", "o", "5"), Key4("b", "a", "r", "1") } |->
        CASE k = Key4("f", "o", "o", "1") -> <<6, 7, 8>>
          [] k = Key4("f", "o", "o", "2") -> <<6, 7, 8>>
          [] k = Key4("f", "o", "o", "3") -> <<7, 8, 9>>
          [] k = Key4("f", "o", "o", "4") -> <<10, 11, 12>>
          [] k = Key4("f", "o", "o", "5") -> <<13, 14, 15>>
          [] k = Key4("b", "a", "r", "1") -> <<0, 255, 127>>]

ValueFilter(op, lit) == [ty |-> "value", klit |-> <<>>, vlit |-> lit, op |-> op]
KeyFilter(op, lit) == [ty |-> "key", klit |-> lit, vlit |-> <<>>, op |-> op]

ScenarioQuery ==
    [prefix |-> <<"f", "o">>,
     filters |-> <<ValueFilter("NotEqual", <<6, 7, 8>>)>>,
     orders |-> <<"ByKeyDesc">>,
     skip |-> 1,
     limit |-> U64Max,
     keys_only |-> FALSE]

ScenarioQueries ==
    { [ScenarioQuery EXCEPT !.skip = sk, !.keys_only = ko] : sk \in 0..MaxSkip, ko \in BOOLEAN }

QKeys == {<<"a">>, <<"a", "b">>, <<"b">>}
QValues == {<<>>} \cup {<<b>> : b \in 0..(MaxByte + 1)}
QMaps == UNION {[S -> QValues] : S \in SUBSET QKeys}

QFilterLists ==
    { <<>>,
      <<ValueFilter("NotEqual", <<0>>)>>,
      <<ValueFilter("Equal", <<0>>)>>,
      <<KeyFilter("LessOrEqual", <<"a", "b">>), ValueFilter("GreaterOrEqual", <<0>>)>>,
      <<ValueFilter("Less", <<1>>), KeyFilter("Greater", <<"a">>)>> }

QOrderLists == {<<>>, <<"ByKeyDesc">>, <<"ByValueAsc">>, <<"ByValueDesc", "ByKeyAsc">>}

QQueries ==
    [prefix : {<<>>, <<"a">>},
     filters : QFilterLists,
     orders : QOrderLists,
     skip : 0..MaxSkip,
     limit : (0..MaxSkip) \cup {U64Max},
     keys_only : BOOLEAN]

QInit ==
    /\ path = PathStore
    /\ file = NoFile
    /\ temp = NoTemps
    /\ inst = "none"
    /\ content = EmptyMap
    /\ lock = "free"
    /\ pc = Idle
    /\ ret = NoRets
    /\ dropping = FALSE
    /\ openRes = "none"
    /\ clean = FALSE
    /\ prev = EmptyMap
    /\ \/ qm = ScenarioMap /\ qq \in ScenarioQueries
       \/ qm \in QMaps /\ qq \in QQueries
    /\ qres = <<>>
    /\ qdone = FALSE

\* Datastore::query on the drawn mapping, in any iteration order of the HashMap.
QEvaluate ==
    /\ ~qdone
    /\ \E iter \in IterOrders(DOMAIN qm) : qres' = Query(qm, qq, iter)
    /\ qdone' = TRUE
    /\ UNCHANGED <<qm, qq, evars>>

QNext == QEvaluate

QSpec == QInit /\ [][QNext]_vars

\* ------------------------------------------------------------------ claims

FlushPcs == {"flush_tmp", "flush_lock", "flush_write", "flush_sync", "flush_persist", "flush_err"}

AllMaps == UNION {[S -> Values] : S \in SUBSET Keys}

\* No operation has completed on the instance since it was opened.
Fresh == inst = "open" /\ pc = Idle /\ ret = NoRets

\* C1: the destination file is never partially written.  Every step that
\* changes the file is the replace step of a flush, made by the thread that
\* holds the lock, and it installs the complete encoding of the mapping that
\* flush serialized; every other step, the failure of any flush step and a
\* crash included, leaves the file exactly as it was.
C1_FileNeverPartial ==
    [][file' # file =>
         \E t \in Threads :
            /\ pc[t] = "flush_persist" /\ lock = t
            /\ temp[t].bytes = Encode(content)
            /\ file' = File(Encode(content))]_vars

\* C1 witness: a flush failed in its write and left a partial temporary file,
\* while the destination still holds the complete encoding of an older mapping.
C1_Witness ==
    \E t \in Threads :
       /\ pc[t] = "flush_err" /\ ret[t].err = "Write"
       /\ temp[t].exists /\ temp[t].bytes # <<>> /\ temp[t].bytes # Encode(content)
       /\ \E m \in AllMaps : m # EmptyMap /\ m # content /\ file = File(Encode(m))

\* C2: round trip.  When the instance was destroyed (or the process killed)
\* after a successful flush with no put or delete since, opening the same path
\* succeeds and the new mapping has exactly the keys of the old one, each with
\* its original value.
C2_RoundTrip ==
    [][(inst = "none" /\ clean) =>
          /\ inst' = "open" /\ openRes' = "Ok"
          /\ DOMAIN content' = DOMAIN prev
          /\ \A k \in DOMAIN prev : content'[k] = prev[k]]_vars

\* C2 witness: a freshly reopened instance holds two entries with different
\* values, read back from the file a flush wrote.
C2_Witness ==
    /\ Fresh /\ clean /\ openRes = "Ok"
    /\ DOMAIN content = Keys
    /\ content[<<"a">>] # content[<<"b">>]

\* C3: from the return of a successful flush until the next put or delete, the
\* file is the encoding of the in-memory mapping.
C3_FileIsFlushedMapping ==
    (inst = "open" /\ clean) => file = File(Encode(content))

\* C3 witness: a flush has returned Ok on a mapping of two entries and nothing
\* was put or deleted since.
C3_Witness ==
    /\ inst = "open" /\ clean
    /\ \E t \in Threads : pc[t] = "idle" /\ ret[t].op = "flush" /\ ret[t].kind = "ok"
    /\ DOMAIN content = Keys

C6_EmptyFileTolerance ==
    /\ (file \in BlankFiles /\ openRes # "none") => (openRes = "Ok" /\ inst = "open")
    /\ (file \in BlankFiles /\ Fresh) =>
          /\ content = EmptyMap
          /\ lock = "free"
          /\ \A t \in Threads :
                /\ ENABLED FlushCall(t)
                /\ \A o \in {"put", "get", "has", "delete", "query"} : ENABLED Call(t, o)

\* C6 witness: an instance opened on a file holding null has taken a put and
\* answered a get with the value, the file not yet flushed.
C6_Witness ==
    /\ file = File(<<Tok("null")>>)
    /\ inst = "open" /\ content # EmptyMap
    /\ \E t \in Threads : ret[t].op = "get" /\ ret[t].kind = "some" /\ ret[t].v # <<>>

Min(a, b) == IF a <= b THEN a ELSE b
Max(a, b) == IF a >= b THEN a ELSE b

\* The keys of the entries of m that the prefix selects and every filter accepts.
Matches(m, q) ==
    {k \in DOMAIN m :
        /\ StartsWith(k, q.prefix)
        /\ \A i \in 1..Len(q.filters) : FilterPasses(Entry(k, m[k]), q.filters[i])}

\* res is limit(skip(s)) for an arrangement s of the matching entries of m
\* that is sorted by the orders of q.
IsStagedResult(m, q, res) ==
    \E s \in IterOrders(Matches(m, q)) :
       /\ \A i, j \in 1..Len(s) :
             i < j => CmpOrders(Entry(s[i], m[s[i]]), Entry(s[j], m[s[j]]), q.orders) <= 0
       /\ Len(res) = Min(q.limit, Max(0, Len(s) - q.skip))
       /\ \A i \in 1..Len(res) : res[i] = Entry(s[i + q.skip], m[s[i + q.skip]])

C8_QuerySnapshot ==
    /\ [](\A t \in Threads :
            pc[t] = "query_ret" =>
               \E iter \in IterOrders(DOMAIN content) :
                  ret[t].rows = Query(content, ret[t].q, iter))
    /\ [][\A t \in Threads :
            /\ (pc[t] \in {"query", "query_ret"} /\ pc'[t] # pc[t] /\ inst' = "open") =>
                  content' = content
            /\ (pc[t] = "query_ret" /\ pc'[t] = "idle" /\ inst' = "open") =>
                  (ret'[t].kind = "rows" /\ ret'[t].rows = ret[t].rows)
            /\ (pc[t] = "idle" /\ ret[t].kind = "rows" /\ pc'[t] = "idle" /\ inst' = "open") =>
                  ret'[t] = ret[t]]_vars

\* C8 witness: a thread holds the rows a query returned, and the mapping has
\* changed since: the rows are no result of that query on the present mapping.
C8_Witness ==
    \E t \in Threads :
       /\ pc[t] = "idle" /\ ret[t].kind = "rows" /\ ret[t].rows # <<>>
       /\ \A iter \in IterOrders(DOMAIN content) : ret[t].rows # Query(content, ret[t].q, iter)

\* C9: with keys_only set, every returned pair carries the default value,
\* whatever is stored under its key.
C9_KeysOnlyDefault ==
    (qdone /\ qq.keys_only) => \A i \in 1..Len(qres) : qres[i].value = DefaultValue

\* C9 witness: a keys_only query returned a key whose stored value is not the
\* default value.
C9_Witness ==
    /\ qdone /\ qq.keys_only
    /\ \E i \in 1..Len(qres) : qm[qres[i].key] # DefaultValue

\* C10: pagination boundary, for every mapping and query.  With `matches` the
\* number of entries of the mapping that the prefix selects and every filter
\* accepts: a skip of at least `matches` gives the empty result, a limit of 0
\* gives the empty result, and the result has min(limit, max(0, matches -
\* skip)) rows.
C10_PaginationBoundary ==
    qdone =>
       LET matches == Cardinality(Matches(qm, qq))
       IN /\ qq.skip >= matches => qres = <<>>
          /\ qq.limit = 0 => qres = <<>>
          /\ Len(qres) = Min(qq.limit, Max(0, matches - qq.skip))


\* C11: deletion.  A delete step is the delete of some key k: when k is absent
\* it returns false and the mapping is as before; when k is present it returns
\* true, k is in the mapping no more and every other key keeps its entry.  has
\* and get answer from the mapping as it is when they run (has: whether the
\* key is in it; get: its value, or nothing), so for a deleted key has returns
\* false and get nothing.
C11_Deletion ==
    [][\A t \in Threads :
          /\ (pc[t] = "delete" /\ pc'[t] = "idle" /\ inst' = "open") =>
                \E k \in Keys :
                   /\ ret'[t].op = "delete" /\ ret'[t].kind = "bool"
                   /\ k \notin DOMAIN content => (~ret'[t].b /\ content' = content)
                   /\ k \in DOMAIN content =>
                         /\ ret'[t].b
                         /\ DOMAIN content' = DOMAIN content \ {k}
                         /\ \A x \in DOMAIN content' : content'[x] = content[x]
          /\ (pc[t] = "has" /\ pc'[t] = "idle" /\ inst' = "open") =>
                /\ content' = content
                /\ \E k \in Keys : ret'[t].b = (k \in DOMAIN content)
          /\ (pc[t] = "get" /\ pc'[t] = "idle" /\ inst' = "open") =>
                /\ content' = content
                /\ \E k \in Keys :
                      IF k \in DOMAIN content
                      THEN ret'[t].kind = "some" /\ ret'[t].v = content[k]
                      ELSE ret'[t].kind = "nothing"]_vars

\* C11 witness: one thread's delete returned true and left the other key's
\* entry in the mapping; the other thread's get then found nothing.
C11_Witness ==
    \E t, u \in Threads :
       /\ pc[t] = "idle" /\ ret[t].op = "delete" /\ ret[t].b
       /\ pc[u] = "idle" /\ ret[u].op = "get" /\ ret[u].kind = "nothing"
       /\ Cardinality(DOMAIN content) = 1


\* C12: destruction.  While an instance is in drop, one thread is in the flush
\* drop called, and where that flush waits, at the lock, it can go on (nothing
\* holds the lock against drop); drop never starts a second flush and never
\* changes the mapping; it ends after the replace step or after a failed
\* step, and either way the instance is gone and the only result is the unit
\* of drop, never the error; when the flush succeeded the file is the encoding
\* of the final mapping, and when it failed the file is what it was.
C12_DropBestEffort ==
    /\ [](dropping =>
            \E t \in Threads :
               /\ pc[t] \in FlushPcs
               /\ pc[t] = "flush_lock" => ENABLED FlushLock(t))
    /\ [][\A t \in Threads :
            (dropping /\ pc[t] \in FlushPcs /\ ~Crash) =>
               /\ pc'[t] # "flush_tmp"
               /\ pc'[t] # "idle" => (content' = content /\ inst' = "open" /\ dropping')
               /\ file' # file => (pc[t] = "flush_persist" /\ file' = File(Encode(content)))
               /\ pc'[t] = "idle" =>
                     /\ pc[t] \in {"flush_persist", "flush_err"}
                     /\ inst' = "none" /\ ~dropping' /\ prev' = content
                     /\ ret'[t] = [RetNone EXCEPT !.op = "drop", !.kind = "unit"]
                     /\ pc[t] = "flush_persist" => file' = File(Encode(content))
                     /\ pc[t] = "flush_err" => file' = file]_vars

\* C12 witness: drop is over after its flush failed: the final mapping had
\* entries that the file, still an older flushed mapping, does not hold.
C12_Witness ==
    /\ inst = "none"
    /\ \E t \in Threads : ret[t].op = "drop" /\ ret[t].kind = "unit"
    /\ prev # EmptyMap
    /\ \E m \in AllMaps : m # prev /\ m # EmptyMap /\ file = File(Encode(m))


\* The positions of a thread inside put, get, has, delete and query.
DataPcs == {"put", "get", "has", "delete", "query", "query_ret"}

\* C13: put and the file.  A put step is the put of some key k and value v: it
\* returns the unit (there is no error), afterwards k is in the mapping with
\* the value v, so that get(k) returns v and has(k) true, the mapping has the
\* keys it had and k, once, every other key has the entry it had, and the file
\* is as before.  No step of put, get, has, delete or query changes the file:
\* the file changes only in the replace step of a flush, called by a thread or
\* by drop.
C13_PutAndFileFrame ==
    [][/\ \A t \in Threads :
            /\ (pc[t] = "put" /\ pc'[t] = "idle" /\ inst' = "open") =>
                  /\ ret'[t] = [RetNone EXCEPT !.op = "put", !.kind = "unit"]
                  /\ file' = file
                  /\ \E k \in Keys, v \in Values :
                        /\ DOMAIN content' = DOMAIN content \cup {k}
                        /\ content'[k] = v
                        /\ \A x \in DOMAIN content \ {k} : content'[x] = content[x]
            /\ (pc[t] \in DataPcs /\ pc'[t] # pc[t]) => file' = file
            /\ (pc[t] = "idle" /\ pc'[t] \in DataPcs) => file' = file
       /\ file' # file =>
             \E t \in Threads : pc[t] = "flush_persist" /\ pc'[t] = "idle" /\ file' = File(temp[t].bytes)]_vars

\* C13 witness: a put has returned on a mapping that now holds two entries
\* with different values, and the file still holds an older mapping.
C13_Witness ==
    /\ \E t \in Threads : pc[t] = "idle" /\ ret[t].op = "put" /\ ret[t].kind = "unit"
    /\ DOMAIN content = Keys
    /\ content[<<"a">>] # content[<<"b">>]
    /\ \E m \in AllMaps : m # content /\ m # EmptyMap /\ file = File(Encode(m))


\* The keys of the rows of a result, in order.
KeysOf(rows) == [i \in 1..Len(rows) |-> rows[i].key]

\* C14: projection is the last stage.  For every mapping and query, the query
\* with keys_only set returns the keys, in the order, that the same query
\* without keys_only returns (for some iteration order of the mapping), also
\* when the query filters or orders by value.
C14_ProjectionLast ==
    (qdone /\ qq.keys_only) =>
       \E iter \in IterOrders(DOMAIN qm) :
          KeysOf(qres) = KeysOf(Query(qm, [qq EXCEPT !.keys_only = FALSE], iter))


\* The positions of flush from the lock to the replace step.
LockedPcs == {"flush_write", "flush_sync", "flush_persist"}

\* A step in which thread u completes its put, get, has or delete.
DataStep(u) == Put(u) \/ Get(u) \/ Has(u) \/ Delete(u)

\* What flush wrote to its temporary file is one whole mapping.
SnapshotIsWhole(t) ==
    pc[t] \in {"flush_sync", "flush_persist"} => \E m \in AllMaps : temp[t].bytes = Encode(m)

\* C15 as stated: the temporary file holds the mapping of one instant, and
\* while a flush is in its write, its sync or its replace step, a put, get, has
\* or delete that another thread has called can complete.
C15_LockOnlyForSnapshot ==
    \A t \in Threads :
       /\ SnapshotIsWhole(t)
       /\ pc[t] \in LockedPcs =>
             \A u \in Threads \ {t} :
                pc[u] \in {"put", "get", "has", "delete"} => ENABLED DataStep(u)

\* C15 amended: flush serializes while it holds the lock and keeps the lock
\* until it returns.  From the write to the replace step, and on the error
\* path after a failed write, sync or replace, the flushing thread holds the
\* lock; once written, the temporary file is the encoding of the mapping as it
\* still is; and a put, get, has or delete of another thread cannot complete
\* before flush returns.  Before flush takes the lock (while it creates the
\* temporary file) such an operation can complete when no other thread holds
\* the lock.
C15_FlushHoldsLock ==
    \A t \in Threads :
       /\ pc[t] \in LockedPcs =>
             /\ lock = t
             /\ pc[t] # "flush_write" => temp[t].bytes = Encode(content)
             /\ \A u \in Threads \ {t} :
                   pc[u] \in {"put", "get", "has", "delete"} => ~ENABLED DataStep(u)
       /\ (pc[t] = "flush_err" /\ ret[t].err \in {"Write", "Sync", "Persist"}) =>
             /\ lock = t
             /\ \A u \in Threads \ {t} :
                   pc[u] \in {"put", "get", "has", "delete"} => ~ENABLED DataStep(u)
       /\ (pc[t] \in {"flush_tmp", "flush_lock"} /\ lock = "free") =>
             \A u \in Threads \ {t} :
                pc[u] \in {"put", "get", "has", "delete"} => ENABLED DataStep(u)

\* C15 witness: a flush has written a mapping with entries to its temporary
\* file and is about to replace the destination, while another thread has
\* called put and waits for the lock.
C15_Witness ==
    \E t, u \in Threads :
       /\ pc[t] = "flush_persist" /\ lock = t
       /\ content # EmptyMap /\ temp[t].bytes = Encode(content)
       /\ pc[u] = "put"


\* C16: opening a path that does not exist.  new can be called and returns Ok
\* with an empty mapping, and no file exists at the path when it has returned;
\* a file comes to exist at the path only in the replace step of a flush that
\* then returns Ok (or ends drop), and it is then the encoding of the mapping.
C16_OpenAbsentPath ==
    /\ []((inst = "none" /\ ~file.exists) => ENABLED Open)
    /\ [][/\ (inst = "none" /\ ~file.exists) =>
                /\ inst' = "open" /\ openRes' = "Ok"
                /\ content' = EmptyMap
                /\ lock' = "free"
                /\ ~file'.exists
          /\ (~file.exists /\ file'.exists) =>
                \E t \in Threads :
                   /\ pc[t] = "flush_persist" /\ pc'[t] = "idle"
                   /\ ret'[t].kind \in {"ok", "unit"}
                   /\ file' = File(Encode(content))]_vars

\* C16 witness: an instance opened on a path that does not exist holds an
\* entry, a flush of it has failed, and there is still no file at the path.
C16_Witness ==
    /\ path = PathStore /\ ~file.exists
    /\ inst = "open" /\ content # EmptyMap
    /\ \E t \in Threads : pc[t] = "idle" /\ ret[t].op = "flush" /\ ret[t].kind = "err"


\* C17: the temporary file of a flush.  A thread has a temporary file only
\* while it is inside flush, after the step that creates it, and the file is
\* in the directory of the destination.  When flush returns (or drop ends) the
\* thread has no temporary file: after the replace step the temporary file has
\* become the destination, and on the error return it is removed and the
\* destination is as it was, as it is after the step that failed.
C17_TempFileLifetime ==
    /\ [](\A t \in Threads :
            temp[t].exists =>
               /\ pc[t] \in FlushPcs \ {"flush_tmp"}
               /\ HasParent(path) /\ temp[t].dir = Parent(path))
    /\ [][\A t \in Threads :
            /\ (pc[t] \in FlushPcs /\ pc'[t] = "idle" /\ ~Crash) =>
                  /\ ~temp'[t].exists
                  /\ pc[t] = "flush_persist" =>
                        (temp[t].exists /\ file' = File(temp[t].bytes))
                  /\ pc[t] = "flush_err" => file' = file
            /\ (pc[t] \in FlushPcs \ {"flush_err"} /\ pc'[t] = "flush_err") => file' = file]_vars

\* C17 witness: one thread's flush returned the error of its sync and its
\* temporary file is gone, while the other thread's flush has a temporary
\* file in the directory of the destination.
C17_Witness ==
    \E t, u \in Threads :
       /\ pc[t] = "idle" /\ ret[t].kind = "err" /\ ret[t].err = "Sync"
       /\ ~temp[t].exists
       /\ temp[u].exists /\ temp[u].dir = "dir" /\ temp[u].bytes # <<>>


\* C18: a path without parent directory.  Every flush on such an instance
\* goes from the call straight to the error return with the error of the
\* missing parent directory: it never creates a temporary file, never takes
\* the lock and never reaches the write, sync or replace step; the call and
\* the return leave the file system, the lock and the mapping as they were,
\* and no file ever exists at the path.
C18_NoParentDirectory ==
    /\ [](~HasParent(path) =>
            /\ ~file.exists
            /\ \A t \in Threads :
                  /\ ~temp[t].exists
                  /\ pc[t] \in FlushPcs => pc[t] = "flush_err"
                  /\ pc[t] = "flush_err" => (lock # t /\ ret[t].err = "NoParent"))
    /\ [][~HasParent(path) =>
            \A t \in Threads :
               /\ (pc[t] = "idle" /\ pc'[t] \in FlushPcs) =>
                     /\ pc'[t] = "flush_err" /\ ret'[t].err = "NoParent"
                     /\ UNCHANGED <<file, temp, lock, content>>
               /\ (pc[t] = "flush_err" /\ pc'[t] = "idle" /\ ~dropping /\ inst' = "open") =>
                     /\ ret'[t].op = "flush" /\ ret'[t].kind = "err"
                     /\ ret'[t].err = "NoParent"
                     /\ UNCHANGED <<file, temp, lock, content>>]_vars

\* C18 witness: on the path without parent directory a flush has returned the
\* error while the mapping holds an entry.
C18_Witness ==
    /\ path = PathBare /\ inst = "open" /\ content # EmptyMap
    /\ \E t \in Threads :
          pc[t] = "idle" /\ ret[t].op = "flush" /\ ret[t].kind = "err" /\ ret[t].err = "NoParent"


\* C19: concurrent flushes.  At most one thread at a time is between the lock
\* and the return of flush, and no put or delete completes meanwhile; so at
\* the replace step the snapshot in the temporary file is the mapping as it
\* is, the effect of every put and delete completed so far, and a flush that
\* returns Ok (or ends drop) has made the file the encoding of that mapping;
\* whenever the file is replaced, what replaces it is the newest state of the
\* mapping, and no other thread holds a snapshot, so none that is older can
\* replace it later.
C19_FlushOrder ==
    /\ [](\A t \in Threads :
            pc[t] \in LockedPcs => \A u \in Threads \ {t} : pc[u] \notin LockedPcs)
    /\ [][/\ (content' # content /\ inst' = "open") =>
                \A t \in Threads : pc[t] \notin LockedPcs
          /\ temp' # temp =>
                \A t \in Threads :
                   (pc[t] = "flush_persist" /\ pc'[t] = "idle"
                                           /\ ret'[t].kind \in {"ok", "unit"}) =>
                      /\ temp[t].bytes = Encode(content)
                      /\ file' = File(temp[t].bytes)
                      /\ inst' = "open" => content' = content
                      /\ \A u \in Threads \ {t} : ~temp'[u].exists \/ temp'[u].bytes = <<>>
          /\ file' # file => file' = File(Encode(content))]_vars

\* C19 witness: both threads are in flush after puts: one is about to replace
\* the file, which holds an older mapping, with the mapping as it is; the
\* other has created its temporary file and waits for the lock.
C19_Witness ==
    \E t, u \in Threads :
       /\ pc[t] = "flush_persist" /\ pc[u] = "flush_lock" /\ temp[u].exists
       /\ DOMAIN content = Keys /\ temp[t].bytes = Encode(content)
       /\ \E m \in AllMaps : m # content /\ m # EmptyMap /\ file = File(Encode(m))


\* ---------------------------------------------------------- fair scheduling

\* A step of thread t inside the operation it has called.
ThreadStep(t) ==
    \/ Put(t) \/ Get(t) \/ Has(t) \/ Delete(t)
    \/ QueryCollect(t) \/ QueryReturn(t)
    \/ CreateTemp(t) \/ CreateTempFail(t) \/ FlushLock(t)
    \/ WriteTemp(t) \/ WriteTempFail(t) \/ SyncTemp(t) \/ SyncTempFail(t)
    \/ Persist(t) \/ PersistFail(t) \/ FlushFail(t)

\* Every sequence of rows a query of the engine model can collect, and every
\* encoding a flush can write.
AllRows == UNION {[1..n -> [key : Keys, value : Values]] : n \in 0..Cardinality(Keys)}
AllEncodings == {Encode(m) : m \in AllMaps}

\* The step of query that takes the lock and collects, whatever the rows.
QueryLock(t) ==
    /\ pc[t] = "query" /\ CanLock(t)
    /\ lock' = t
    /\ \E q \in EngineQueries, rows \in AllRows :
          ret' = [ret EXCEPT ![t] =
                    [RetNone EXCEPT !.op = "query", !.kind = "collected", !.q = q,
                                    !.rows = rows]]
    /\ pc' = [pc EXCEPT ![t] = "query_ret"]
    /\ UNCHANGED <<path, file, temp, inst, content, dropping, openRes, clean, prev, qvars>>

\* The step of flush that writes the temporary file, whatever the bytes.
WriteDone(t) ==
    /\ pc[t] = "flush_write"
    /\ \E bytes \in AllEncodings : temp' = [temp EXCEPT ![t] = TempFile(temp[t].dir, bytes)]
    /\ pc' = [pc EXCEPT ![t] = "flush_sync"]
    /\ UNCHANGED <<path, file, inst, content, lock, ret, dropping, openRes, clean, prev, qvars>>

\* Thread t runs: it takes the step its operation is at.  Where a step may
\* also fail, the step that succeeds stands for both (either ends the wait);
\* the steps that carry data, those of query and of the write, are taken
\* whatever the data.
ThreadRuns(t) ==
    \/ Put(t) \/ Get(t) \/ Has(t) \/ Delete(t)
    \/ QueryLock(t) \/ QueryReturn(t)
    \/ CreateTemp(t) \/ FlushLock(t) \/ WriteDone(t) \/ SyncTemp(t)
    \/ Persist(t) \/ FlushFail(t)

\* The engine under fair scheduling, on a path where no file exists yet, with
\* an instance that lives on: both threads call flush, and one of them also
\* put, get, has, delete and query.  A thread that is inside an operation
\* keeps running, and a thread that waits for the parking_lot Mutex, which is
\* eventually fair, gets it when it is released again and again.
FairInit == Init /\ file = NoFile

FairNext ==
    \/ Open
    \/ \E t \in Threads : FlushCall(t)
    \/ \E o \in {"put", "get", "has", "delete", "query"} : Call("t2", o)
    \/ \E t \in Threads : ThreadStep(t)

FairSpec == FairInit /\ [][FairNext]_vars /\ \A t \in Threads : SF_vars(ThreadRuns(t))

\* C20: no operation blocks the instance forever.  A thread holds the lock
\* only inside query, after it has collected, and inside flush, from the lock
\* step on (the error path after it included); a thread that is in no
\* operation does not hold it, so every return, the error returns of flush
\* too, has released it; and under fair scheduling every operation a thread
\* is in returns, also one that waits while a failed flush still holds the
\* lock.
C20_NoBlocking ==
    /\ [](\A t \in Threads :
            /\ lock = t => pc[t] \in {"query_ret", "flush_err"} \cup LockedPcs
            /\ pc[t] \in {"query_ret"} \cup LockedPcs => lock = t
            /\ pc[t] = "idle" => lock # t)
    /\ \A t \in Threads : (pc[t] # "idle") ~> (pc[t] = "idle")

\* C20 witness: a thread has called put and waits for the lock, which a flush
\* that has failed in its write still holds on its way to the error return.
C20_Witness ==
    \E t, u \in Threads :
       /\ pc[t] = "put"
       /\ pc[u] = "flush_err" /\ ret[u].err = "Write" /\ lock = u

====
